---- MODULE Spec2Model ----
(***************************************************************************)
(* Model of src/streamlit_app.py: the "Convert to PDF" button handler of   *)
(* the Markdown to PDF converter (lines 118-219).                          *)
(*                                                                         *)
(* Representation of Python strings.  A str is a sequence of TLA+ strings. *)
(* Every character that comes from the user's document, title or file     *)
(* name is one element.  A markup literal that the code (or the Markdown   *)
(* renderer) writes, such as "<h" or "</a></li>", is one element too.  No  *)
(* character of the document alphabets below occurs in a markup literal    *)
(* at a place where it could start or end a match of the pattern           *)
(* <h{level}>{title}</h{level}>, so substring search on elements finds     *)
(* exactly the occurrences that substring search on characters finds.      *)
(***************************************************************************)
EXTENDS Integers, Sequences, FiniteSets, TLC

VARIABLES
    pc,                 \* position of the modelled run
    md_content,         \* the document text (line 62 / 66)
    uploaded_filename,  \* line 57 / 61; None when nothing was uploaded
    now,                \* the wall clock read by datetime.now() (line 164)
    html,               \* line 121, rewritten at 131 and 133
    toc_html,           \* line 124, 130, 132
    i,                  \* number of lines of md_content the TOC loop has taken
    level,              \* line 127
    title,              \* line 128
    anchor,             \* line 129
    filename_base,      \* lines 158-164
    add_toc,            \* line 101
    show_preview,       \* line 104
    download_preview,   \* line 110
    save_html,          \* line 98
    compress_pdf,       \* line 107
    final_html,         \* line 155
    temp_files,         \* line 182; meaningful once temp_files_bound
    temp_files_bound,   \* whether the name temp_files has been assigned
    disk,               \* the temporary files that exist: records [name, data]
    ui,                 \* what the page shows, in order: messages, frames, downloads
    calls,              \* the external collaborators invoked, in order
    raised,             \* the texts of the errors raised, in order
    uncaught            \* an error left the handler uncaught

handlerVars == <<add_toc, show_preview, download_preview, save_html, compress_pdf,
                 final_html, temp_files, temp_files_bound, disk, ui, calls, raised,
                 uncaught>>

vars == <<pc, md_content, uploaded_filename, now, html, toc_html, i, level,
          title, anchor, filename_base, handlerVars>>

(***************************************************************************)
(* Bounds of the model.                                                    *)
(***************************************************************************)
MaxDocLen == 7
MaxTitleLen == 4
MaxNameDocLen == 5
MaxStemLen == 2

None == <<"None">>
DocChars == {"#", " ", "A", "\n"}
SlugChars == {"a", "A", "1", "-", " ", "_"}

FileChars == {"a", ".", "m", "d"}
Chars == DocChars \cup SlugChars \cup FileChars

StringsOver(chars, n) == UNION {[1..k -> chars] : k \in 0..n}
Docs == StringsOver(DocChars, MaxDocLen) \ {<<>>}
Titles == StringsOver(SlugChars, MaxTitleLen)
NameDocs == StringsOver(DocChars, MaxNameDocLen) \ {<<>>}
\* the uploader accepts only names with the extension md (line 59)
UploadNames == {stem \o <<".", "m", "d">> : stem \in StringsOver({"a", "."}, MaxStemLen)}
Clock(y, mo, d, h, mi, sec) ==
    [year |-> y, month |-> mo, day |-> d, hour |-> h, minute |-> mi, second |-> sec]
NoClock == Clock(0, 0, 0, 0, 0, 0)
Nows == {Clock(2024, 1, 5, 0, 9, 30), Clock(1999, 12, 31, 23, 59, 59)}

(***************************************************************************)
(* Python's str and re operations used by the handler.                     *)
(***************************************************************************)
UpperLetters == <<"A","B","C","D","E","F","G","H","I","J","K","L","M",
                  "N","O","P","Q","R","S","T","U","V","W","X","Y","Z">>
LowerLetters == <<"a","b","c","d","e","f","g","h","i","j","k","l","m",
                  "n","o","p","q","r","s","t","u","v","w","x","y","z">>
DigitChars == <<"0","1","2","3","4","5","6","7","8","9">>

Range(f) == {f[k] : k \in DOMAIN f}

\* c.lower() for one character
lower_char(c) ==
    IF \E k \in 1..26 : UpperLetters[k] = c
    THEN LowerLetters[CHOOSE k \in 1..26 : UpperLetters[k] = c]
    ELSE c

\* a wrong case function: str.swapcase() in place of str.lower()
swapcase(s) ==
    [k \in 1..Len(s) |->
        IF \E j \in 1..26 : UpperLetters[j] = s[k]
        THEN LowerLetters[CHOOSE j \in 1..26 : UpperLetters[j] = s[k]]
        ELSE IF \E j \in 1..26 : LowerLetters[j] = s[k]
             THEN UpperLetters[CHOOSE j \in 1..26 : LowerLetters[j] = s[k]]
             ELSE s[k]]

\* s.lower()
lower(s) == [k \in 1..Len(s) |-> lower_char(s[k])]

\* the character class [a-zA-Z0-9]
IsAlnum(c) == c \in Range(UpperLetters) \cup Range(LowerLetters) \cup Range(DigitChars)

\* str(n) for n >= 0, as the f-strings of lines 130-131 format an int
RECURSIVE Digits(_)
Digits(n) ==
    IF n < 10 THEN <<DigitChars[n + 1]>>
    ELSE Digits(n \div 10) \o <<DigitChars[(n % 10) + 1]>>

Drop(s, n) == SubSeq(s, n + 1, Len(s))

\* length of the longest prefix of s whose elements all satisfy being in set cs
RECURSIVE PrefixRun(_, _)
PrefixRun(s, cs) ==
    IF s # <<>> /\ Head(s) \in cs THEN 1 + PrefixRun(Tail(s), cs) ELSE 0

RECURSIVE SuffixRun(_, _)
SuffixRun(s, cs) ==
    IF s # <<>> /\ s[Len(s)] \in cs THEN 1 + SuffixRun(SubSeq(s, 1, Len(s) - 1), cs) ELSE 0

\* s.strip(): whitespace removed at both ends
Whitespace == {" ", "\n"}
strip(s) ==
    LET a == PrefixRun(s, Whitespace)
    IN  IF a = Len(s) THEN <<>>
        ELSE SubSeq(s, a + 1, Len(s) - SuffixRun(s, Whitespace))

\* s.startswith(p)
startswith(s, p) == Len(s) >= Len(p) /\ SubSeq(s, 1, Len(p)) = p

\* s.find(p) + 1: the first place p occurs in s, 0 when it does not
find(s, p) ==
    LET hits == {k \in 1..(Len(s) - Len(p) + 1) : SubSeq(s, k, k + Len(p) - 1) = p}
    IN  IF hits = {} THEN 0 ELSE CHOOSE k \in hits : \A j \in hits : k <= j

\* s.replace(old, new, 1): only the first occurrence
replace_count1(s, old, new) ==
    LET k == find(s, old)
    IN  IF k = 0 THEN s
        ELSE SubSeq(s, 1, k - 1) \o new \o Drop(s, k + Len(old) - 1)

\* s.replace(old, new) for a non-empty old: every occurrence, left to right
RECURSIVE replace(_, _, _)
replace(s, old, new) ==
    LET k == find(s, old)
    IN  IF k = 0 THEN s
        ELSE SubSeq(s, 1, k - 1) \o new \o replace(Drop(s, k + Len(old) - 1), old, new)

\* s.splitlines() for the line boundary "\n"
RECURSIVE splitlines(_)
splitlines(s) ==
    IF s = <<>> THEN <<>>
    ELSE LET n == PrefixRun(s, Chars \ {"\n"})
         IN  <<SubSeq(s, 1, n)>> \o splitlines(Drop(s, IF n < Len(s) THEN n + 1 ELSE n))

\* line.split(" ")[0]
split_first(line) == SubSeq(line, 1, PrefixRun(line, Chars \ {" "}))

\* re.sub(r'[^a-zA-Z0-9]+', '-', s)
RECURSIVE re_sub_nonalnum(_)
re_sub_nonalnum(s) ==
    IF s = <<>> THEN <<>>
    ELSE IF IsAlnum(Head(s)) THEN <<Head(s)>> \o re_sub_nonalnum(Tail(s))
    ELSE LET n == PrefixRun(s, {c \in Chars : ~IsAlnum(c)})
         IN  <<"-">> \o re_sub_nonalnum(Drop(s, n))

\* line 129: anchor = re.sub(r'[^a-zA-Z0-9]+', '-', title.lower())
slugify(t) == re_sub_nonalnum(lower(t))

(***************************************************************************)
(* markdown.markdown(md_content), line 121, for documents over DocChars:   *)
(* Python-Markdown's hash-header and paragraph block processors.  Every    *)
(* line that starts with "#" becomes <hN>text</hN> with N the length of    *)
(* the "#" run, at most 6, and text the rest of the line without trailing  *)
(* "#" and surrounding blanks.  Runs of other non-blank lines become one   *)
(* <p>.  Blocks are joined by a newline.  Whitespace normalisation inside  *)
(* a paragraph and indented code blocks are not modelled: no heading tag   *)
(* arises from them.                                                       *)
(***************************************************************************)
MaxHeadingLevel == 6

Min(a, b) == IF a < b THEN a ELSE b

IsBlank(line) == PrefixRun(line, {" "}) = Len(line)

RECURSIVE Join(_, _)
Join(blocks, sep) ==
    IF blocks = <<>> THEN <<>>
    ELSE IF Len(blocks) = 1 THEN blocks[1]
    ELSE blocks[1] \o sep \o Join(Tail(blocks), sep)

md_heading(line) ==
    LET n    == Min(PrefixRun(line, {"#"}), MaxHeadingLevel)
        rest == Drop(line, n)
        text == strip(SubSeq(rest, 1, Len(rest) - SuffixRun(rest, {"#"})))
    IN  <<"<h">> \o Digits(n) \o <<">">> \o text \o <<"</h">> \o Digits(n) \o <<">">>

md_paragraph(plines) == <<"<p>">> \o Join(plines, <<"\n">>) \o <<"</p>">>

RECURSIVE md_blocks(_, _)
md_blocks(lines, para) ==
    LET flush == IF para = <<>> THEN <<>> ELSE <<md_paragraph(para)>>
    IN  IF lines = <<>> THEN flush
        ELSE IF startswith(Head(lines), <<"#">>)
             THEN flush \o <<md_heading(Head(lines))>> \o md_blocks(Tail(lines), <<>>)
        ELSE IF IsBlank(Head(lines))
             THEN flush \o md_blocks(Tail(lines), <<>>)
        ELSE md_blocks(Tail(lines), Append(para, Head(lines)))

markdown(s) == Join(md_blocks(splitlines(s), <<>>), <<"\n">>)

(***************************************************************************)
(* The TOC builder, lines 123-133.                                         *)
(***************************************************************************)
\* line 124
toc_header == <<"<h2>Table of Contents</h2><ul>">>

\* line 127: level = len(line.split(" ")[0])
line_level(line) == Len(split_first(line))

\* line 128: title = line[level+1:].strip()
line_title(line) == strip(Drop(line, line_level(line) + 1))

\* line 130: the <li> appended to toc_html
toc_entry(lv, an, ti) ==
    <<"<li style='margin-left:">> \o Digits((lv - 1) * 20) \o <<"px'><a href='#">>
        \o an \o <<"'>">> \o ti \o <<"</a></li>">>

\* line 131: the heading tag searched for and the tag that replaces it
heading_tag(lv, ti) ==
    <<"<h">> \o Digits(lv) \o <<">">> \o ti \o <<"</h">> \o Digits(lv) \o <<">">>

\* the id attribute written from the title instead of the anchor
heading_tag_with_title_id(lv, an, ti) ==
    <<"<h">> \o Digits(lv) \o <<" id='">> \o ti \o <<"'>">> \o ti
        \o <<"</h">> \o Digits(lv) \o <<">">>

heading_tag_with_id(lv, an, ti) ==
    <<"<h">> \o Digits(lv) \o <<" id='">> \o an \o <<"'>">> \o ti
        \o <<"</h">> \o Digits(lv) \o <<">">>

lines_of_doc == splitlines(md_content)

NameIdle == uploaded_filename = None /\ now = NoClock /\ filename_base = <<>>
HandlerIdle ==
    /\ add_toc = TRUE /\ show_preview = FALSE /\ download_preview = FALSE
    /\ save_html = FALSE /\ compress_pdf = FALSE
    /\ final_html = <<>> /\ temp_files = <<>> /\ temp_files_bound = FALSE
    /\ disk = {} /\ ui = <<>> /\ calls = <<>> /\ raised = <<>> /\ uncaught = FALSE
TocIdle == html = <<>> /\ toc_html = <<>> /\ i = 0 /\ level = 0

\* the state at the click of the button with "Include Table of Contents" checked
InitToc ==
    /\ pc = "click"
    /\ md_content \in Docs
    /\ title = <<>> /\ anchor = <<>>
    /\ TocIdle /\ NameIdle /\ HandlerIdle

\* line 121 and line 124
MarkdownToHtml ==
    /\ pc = "click"
    /\ html' = markdown(md_content)
    /\ toc_html' = toc_header
    /\ pc' = "toc_loop"
    /\ UNCHANGED handlerVars
    /\ UNCHANGED <<md_content, uploaded_filename, now, i, level, title, anchor, filename_base>>

\* lines 125-131 for a line that starts with "#"
TocHeadingLine ==
    /\ pc = "toc_loop"
    /\ i < Len(lines_of_doc)
    /\ LET line == lines_of_doc[i + 1]
           lv   == line_level(line)
           ti   == line_title(line)
           an   == slugify(ti)
       IN  /\ startswith(line, <<"#">>)
           /\ level' = lv
           /\ title' = ti
           /\ anchor' = an
           /\ toc_html' = toc_html \o toc_entry(lv, an, ti)
           /\ html' = replace(html, heading_tag(lv, ti), heading_tag_with_id(lv, an, ti))
    /\ i' = i + 1
    /\ UNCHANGED handlerVars
    /\ UNCHANGED <<pc, md_content, uploaded_filename, now, filename_base>>

\* lines 125-126 for any other line
TocOtherLine ==
    /\ pc = "toc_loop"
    /\ i < Len(lines_of_doc)
    /\ ~startswith(lines_of_doc[i + 1], <<"#">>)
    /\ i' = i + 1
    /\ UNCHANGED handlerVars
    /\ UNCHANGED <<pc, md_content, uploaded_filename, now, html, toc_html, level, title,
                   anchor, filename_base>>

\* lines 132-133
TocFinish ==
    /\ pc = "toc_loop"
    /\ i = Len(lines_of_doc)
    /\ toc_html' = toc_html \o <<"</ul>">>
    /\ html' = toc_html' \o html
    /\ pc' = "toc_done"
    /\ UNCHANGED handlerVars
    /\ UNCHANGED <<md_content, uploaded_filename, now, i, level, title, anchor, filename_base>>

NextToc == MarkdownToHtml \/ TocHeadingLine \/ TocOtherLine \/ TocFinish

SpecToc == InitToc /\ [][NextToc]_vars

(***************************************************************************)
(* The anchor computation alone (line 129), over titles with letters of    *)
(* both cases, digits and symbols.                                         *)
(***************************************************************************)
InitSlug ==
    /\ pc = "title"
    /\ title \in Titles
    /\ anchor = <<>>
    /\ md_content = <<>>
    /\ TocIdle /\ NameIdle /\ HandlerIdle

ComputeAnchor ==
    /\ pc = "title"
    /\ anchor' = slugify(title)
    /\ pc' = "anchor"
    /\ UNCHANGED handlerVars
    /\ UNCHANGED <<md_content, uploaded_filename, now, html, toc_html, i, level, title,
                   filename_base>>

\* the anchor is itself a heading title of a later document
ReuseAnchorAsTitle ==
    /\ pc = "anchor"
    /\ title' = anchor
    /\ pc' = "title2"
    /\ UNCHANGED handlerVars
    /\ UNCHANGED <<md_content, uploaded_filename, now, html, toc_html, i, level, anchor,
                   filename_base>>

ComputeAnchorAgain ==
    /\ pc = "title2"
    /\ anchor' = slugify(title)
    /\ pc' = "anchor2"
    /\ UNCHANGED handlerVars
    /\ UNCHANGED <<md_content, uploaded_filename, now, html, toc_html, i, level, title,
                   filename_base>>

NextSlug == ComputeAnchor \/ ReuseAnchorAsTitle \/ ComputeAnchorAgain

SpecSlug == InitSlug /\ [][NextSlug]_vars

(***************************************************************************)
(* Reading the produced text back, for the statements below.               *)
(***************************************************************************)
RECURSIVE CountOcc(_, _)
CountOcc(s, p) ==
    LET k == find(s, p)
    IN  IF k = 0 THEN 0 ELSE 1 + CountOcc(Drop(s, k + Len(p) - 1), p)

\* the first place at or after from where s holds the element tok, 0 if none
IndexFrom(s, tok, from) ==
    LET hits == {k \in from..Len(s) : s[k] = tok}
    IN  IF hits = {} THEN 0 ELSE CHOOSE k \in hits : \A j \in hits : k <= j

RECURSIVE ParseNat(_)
ParseNat(ds) ==
    IF ds = <<>> THEN 0
    ELSE 10 * ParseNat(SubSeq(ds, 1, Len(ds) - 1))
         + (CHOOSE d \in 0..9 : DigitChars[d + 1] = ds[Len(ds)])

\* the <li> entries of a TOC text, in order: margin-left in px, href target, link text
RECURSIVE TocEntriesFrom(_, _)
TocEntriesFrom(toc, from) ==
    LET p == IndexFrom(toc, "<li style='margin-left:", from)
        q == IndexFrom(toc, "px'><a href='#", p + 1)
        r == IndexFrom(toc, "'>", q + 1)
        e == IndexFrom(toc, "</a></li>", r + 1)
    IN  IF p = 0 THEN <<>>
        ELSE <<[indent |-> ParseNat(SubSeq(toc, p + 1, q - 1)),
                href   |-> SubSeq(toc, q + 1, r - 1),
                text   |-> SubSeq(toc, r + 1, e - 1)]>> \o TocEntriesFrom(toc, e + 1)

TocEntries(toc) == TocEntriesFrom(toc, 1)

\* the lines among the first n lines of the document that start with "#", in order
RECURSIVE HeadingLines(_, _)
HeadingLines(lines, n) ==
    IF n = 0 THEN <<>>
    ELSE HeadingLines(lines, n - 1)
         \o (IF startswith(lines[n], <<"#">>) THEN <<lines[n]>> ELSE <<>>)

LeadingHashes(line) == PrefixRun(line, {"#"})

InTocRun == pc \in {"toc_loop", "toc_done"}

\* the step of the TOC loop that takes a line starting with "#"
IsHeadingStep ==
    /\ pc = "toc_loop" /\ pc' = "toc_loop" /\ i' = i + 1
    /\ startswith(lines_of_doc[i + 1], <<"#">>)

\* the literal tags of the statements, written out independently of the builder
PlainTag(lv, ti) ==
    <<"<h">> \o Digits(lv) \o <<">">> \o ti \o <<"</h">> \o Digits(lv) \o <<">">>

TagWithId(lv, id, ti) ==
    <<"<h">> \o Digits(lv) \o <<" id='">> \o id \o <<"'>">> \o ti \o <<"</h">> \o Digits(lv) \o <<">">>

(***************************************************************************)
(* C6: with TOC enabled, the TOC has exactly one entry per document line   *)
(* that starts with "#", in order of appearance, and each entry's indent   *)
(* is (level-1)*20px for the heading's level, the number of leading "#".   *)
(***************************************************************************)
C6_TocEntriesPerHeading ==
    InTocRun =>
        LET hl == HeadingLines(lines_of_doc, i)
            es == TocEntries(toc_html)
        IN  /\ Len(es) = Len(hl)
            /\ \A k \in 1..Len(es) : es[k].indent = (LeadingHashes(hl[k]) - 1) * 20

(***************************************************************************)
(* C9: for every line that starts with "#", the level the TOC builder      *)
(* uses equals the number of leading "#" characters of that line.          *)
(***************************************************************************)
C9_LevelIsHashCount ==
    (pc = "toc_loop" /\ i > 0 /\ startswith(lines_of_doc[i], <<"#">>))
        => level = LeadingHashes(lines_of_doc[i])

(***************************************************************************)
(* C7: anchor attachment is exact-match-or-skip.  A heading step whose     *)
(* literal tag <h{level}>{title}</h{level}> occurs in the HTML leaves a    *)
(* tag with id = slug of the title, the href of the entry it appends; a    *)
(* step whose tag does not occur leaves the HTML as it was.  When the      *)
(* injection is over, every heading line whose tag the renderer produced   *)
(* has its tag with that id in the page, and its TOC entry links to it.    *)
(***************************************************************************)
C7_Step ==
    IsHeadingStep =>
        LET old  == PlainTag(level', title')
            es   == TocEntries(toc_html')
            last == es[Len(es)]
        IN  /\ Len(es) = Len(TocEntries(toc_html)) + 1
            /\ last.text = title'
            /\ IF find(html, old) > 0
               THEN /\ find(html', TagWithId(level', last.href, title')) > 0
                    /\ find(html', old) = 0
                    /\ last.href = re_sub_nonalnum(lower(title'))
               ELSE html' = html

C7_Final ==
    pc = "toc_done" =>
        LET hl == HeadingLines(lines_of_doc, Len(lines_of_doc))
            es == TocEntries(toc_html)
        IN  \A k \in 1..Len(hl) :
                LET lv == line_level(hl[k])
                    ti == line_title(hl[k])
                IN  find(markdown(md_content), PlainTag(lv, ti)) > 0
                        => /\ find(html, TagWithId(lv, es[k].href, ti)) > 0
                           /\ es[k].href = re_sub_nonalnum(lower(ti))

\* C7: exact-match-or-skip holds of every heading step and of the finished injection
C7_AnchorAttachment == [](C7_Final) /\ [][C7_Step]_vars

\* an injection that attached an id to one heading and skipped another
C7_Witness ==
    /\ pc = "toc_done"
    /\ \E k \in 1..Len(lines_of_doc) :
            /\ startswith(lines_of_doc[k], <<"#">>)
            /\ line_title(lines_of_doc[k]) # <<>>
            /\ find(html, TagWithId(line_level(lines_of_doc[k]),
                                    slugify(line_title(lines_of_doc[k])),
                                    line_title(lines_of_doc[k]))) > 0
    /\ \E k \in 1..Len(lines_of_doc) :
            /\ startswith(lines_of_doc[k], <<"#">>)
            /\ find(markdown(md_content),
                    PlainTag(line_level(lines_of_doc[k]), line_title(lines_of_doc[k]))) = 0

(***************************************************************************)
(* C10 as stated: a heading step rewrites only the FIRST occurrence of     *)
(* <h{level}>{title}</h{level}> and leaves all other text unchanged.       *)
(***************************************************************************)
FirstOnly(s, old, new) ==
    LET k == find(s, old)
    IN  IF k = 0 THEN s ELSE SubSeq(s, 1, k - 1) \o new \o Drop(s, k + Len(old) - 1)

RECURSIVE FirstOnlyTimes(_, _, _, _)
FirstOnlyTimes(s, old, new, n) ==
    IF n = 0 THEN s ELSE FirstOnlyTimes(FirstOnly(s, old, new), old, new, n - 1)

C10_FirstOccurrenceOnly ==
    [][IsHeadingStep =>
          html' = FirstOnly(html, PlainTag(level', title'),
                            TagWithId(level', anchor', title'))]_vars

(***************************************************************************)
(* C10 amended: a heading step rewrites EVERY occurrence of the tag (as    *)
(* many first-occurrence rewrites as the tag has occurrences) and leaves   *)
(* all other text unchanged.                                               *)
(***************************************************************************)
C10_EveryOccurrence ==
    [][IsHeadingStep =>
          LET old == PlainTag(level', title')
              new == TagWithId(level', anchor', title')
          IN  /\ html' = FirstOnlyTimes(html, old, new, CountOcc(html, old))
              /\ CountOcc(html', new) = CountOcc(html, new) + CountOcc(html, old)]_vars

\* a heading step has just rewritten two occurrences of its tag, as for "# A\n# A"
C10_Witness ==
    /\ pc = "toc_loop" /\ i = 1
    /\ title # <<>>
    /\ startswith(lines_of_doc[1], <<"#">>)
    /\ CountOcc(markdown(md_content), PlainTag(level, title)) = 2
    /\ CountOcc(html, TagWithId(level, anchor, title)) = 2

(***************************************************************************)
(* C8: slugify is idempotent: the anchor of an anchor is that anchor, for  *)
(* every title over letters, digits and symbols, the empty and the         *)
(* all-symbol titles included.                                             *)
(***************************************************************************)
C8_SlugifyIdempotent == pc = "anchor2" => anchor = title

\* an all-symbol title, whose anchor is a single hyphen
C8_Witness == pc = "anchor2" /\ anchor = <<"-">>

(***************************************************************************)
(* The filename logic, lines 157-164.                                      *)
(***************************************************************************)
\* re.search in place of re.match: the first H1 anywhere in s
re_search_h1(s) ==
    LET hits == {k \in 1..(Len(s) - 2) : s[k] = "#" /\ s[k + 1] = " " /\ s[k + 2] # "\n"}
        k0   == CHOOSE k \in hits : \A j \in hits : k <= j
    IN  IF hits = {} THEN None
        ELSE SubSeq(s, k0 + 2, k0 + 1 + PrefixRun(Drop(s, k0 + 1), Chars \ {"\n"}))

\* re.match(r"# (.+)", s): group(1) of the match at the start of s, None without one
re_match_h1(s) ==
    IF Len(s) >= 3 /\ s[1] = "#" /\ s[2] = " " /\ s[3] # "\n"
    THEN SubSeq(s, 3, 2 + PrefixRun(Drop(s, 2), Chars \ {"\n"}))
    ELSE None

\* os.path.splitext(p)[0], genericpath._splitext with sep "/" and extsep "."
RIndex(p, c) ==
    LET hits == {k \in 1..Len(p) : p[k] = c}
    IN  IF hits = {} THEN 0 ELSE CHOOSE k \in hits : \A j \in hits : j <= k

splitext_root(p) ==
    LET sepIndex == RIndex(p, "/")
        dotIndex == RIndex(p, ".")
    IN  IF dotIndex > sepIndex
           /\ \E k \in (sepIndex + 1)..(dotIndex - 1) : p[k] # "."
        THEN SubSeq(p, 1, dotIndex - 1)
        ELSE p

\* the zero-padded decimal fields of strftime
RECURSIVE ZeroPad(_, _)
ZeroPad(ds, width) == IF Len(ds) >= width THEN ds ELSE ZeroPad(<<"0">> \o ds, width)

YearWidth == 4
FieldWidth == 2

\* datetime.strftime("%Y%m%d_%H%M%S")
strftime(t) ==
    ZeroPad(Digits(t.year), YearWidth) \o ZeroPad(Digits(t.month), FieldWidth)
        \o ZeroPad(Digits(t.day), FieldWidth) \o <<"_">>
        \o ZeroPad(Digits(t.hour), FieldWidth) \o ZeroPad(Digits(t.minute), FieldWidth)
        \o ZeroPad(Digits(t.second), FieldWidth)

\* lines 158-164
resolve_filename_base(doc, upname, t) ==
    LET match == re_match_h1(doc)
    IN  IF match # None THEN replace(strip(match), <<" ">>, <<"_">>)
        ELSE IF upname # None /\ upname # <<>> THEN splitext_root(upname)
        ELSE <<"converted_">> \o strftime(t)

InitName ==
    /\ pc = "click"
    /\ md_content \in NameDocs
    /\ uploaded_filename \in UploadNames \cup {None}
    /\ now \in Nows
    /\ filename_base = <<>>
    /\ title = <<>> /\ anchor = <<>>
    /\ TocIdle /\ HandlerIdle

FilenameLogic ==
    /\ pc = "click"
    /\ filename_base' = resolve_filename_base(md_content, uploaded_filename, now)
    /\ pc' = "named"
    /\ UNCHANGED handlerVars
    /\ UNCHANGED <<md_content, uploaded_filename, now, html, toc_html, i, level, title,
                   anchor>>

NextName == FilenameLogic

SpecName == InitName /\ [][NextName]_vars

(***************************************************************************)
(* C5: filename resolution follows a strict priority.  (1) The first line  *)
(* is one "#", a space, then text: the base name is that title with its    *)
(* spaces replaced by underscores, whatever was uploaded.  (2) Otherwise,  *)
(* with an uploaded filename: that name with its extension stripped.       *)
(* (3) Otherwise "converted_" and a YYYYMMDD_HHMMSS timestamp.  An H1 that *)
(* is not the first line never selects (1).                                *)
(***************************************************************************)
FirstLine(s) ==
    LET nl == IndexFrom(s, "\n", 1)
    IN  IF nl = 0 THEN s ELSE SubSeq(s, 1, nl - 1)

IsLeadingH1(s) ==
    LET first == FirstLine(s)
    IN  Len(first) >= 3 /\ first[1] = "#" /\ first[2] = " "

Underscored(t) == [k \in 1..Len(t) |-> IF t[k] = " " THEN "_" ELSE t[k]]

\* base is name without its extension: a final "." that follows a character
\* other than "." and all that comes after it
IsExtensionStripped(name, base) ==
    /\ Len(base) <= Len(name)
    /\ base = SubSeq(name, 1, Len(base))
    /\ LET ext == Drop(name, Len(base))
       IN  IF \E k \in 2..Len(name) : name[k] = "." /\ \E j \in 1..(k - 1) : name[j] # "."
           THEN /\ ext # <<>>
                /\ ext[1] = "."
                /\ \A k \in 2..Len(ext) : ext[k] # "."
           ELSE ext = <<>>

IsTimestamped(base, t) ==
    /\ Len(base) = 16
    /\ base[1] = "converted_"
    /\ \A k \in (2..9) \cup (11..16) : base[k] \in Range(DigitChars)
    /\ base[10] = "_"
    /\ ParseNat(SubSeq(base, 2, 5)) = t.year
    /\ ParseNat(SubSeq(base, 6, 7)) = t.month
    /\ ParseNat(SubSeq(base, 8, 9)) = t.day
    /\ ParseNat(SubSeq(base, 11, 12)) = t.hour
    /\ ParseNat(SubSeq(base, 13, 14)) = t.minute
    /\ ParseNat(SubSeq(base, 15, 16)) = t.second

C5_FilenamePriority ==
    pc = "named" =>
        IF IsLeadingH1(md_content)
        THEN filename_base = Underscored(strip(Drop(FirstLine(md_content), 2)))
        ELSE IF uploaded_filename # None
        THEN IsExtensionStripped(uploaded_filename, filename_base)
        ELSE IsTimestamped(filename_base, now)

\* an upload whose document has an H1, but not as its first line: rule (2) decided
C5_Witness ==
    /\ pc = "named"
    /\ uploaded_filename = <<"a", ".", "m", "d">>
    /\ filename_base = <<"a">>
    /\ ~IsLeadingH1(md_content)
    /\ \E k \in 2..Len(lines_of_doc) : startswith(lines_of_doc[k], <<"#", " ", "A">>)

(***************************************************************************)
(* The whole button handler, lines 118-219: the try block, its except      *)
(* clause and the cleanup loop that follows them.  The page options that   *)
(* only select CSS or renderer flags (font, theme, paper size, header,     *)
(* footer, watermark) have their defaults.  A step that creates, opens,    *)
(* writes or unlinks a file, or runs an external program, may raise.       *)
(***************************************************************************)
HandlerDocs == {<<"#", " ", "A">>, <<"#", "A", "\n", "A">>}
ClickTime == Clock(2024, 1, 5, 0, 9, 30)

TmpPdfName == <<"tmp_pdf.name">>
TmpHtmlName == <<"tmp_html.name">>

\* lines 125-131 over all the lines: the html and the toc_html the loop leaves
RECURSIVE toc_loop(_, _, _)
toc_loop(lines, h, toc) ==
    IF lines = <<>> THEN [html |-> h, toc_html |-> toc]
    ELSE IF startswith(Head(lines), <<"#">>)
    THEN LET lv == line_level(Head(lines))
             ti == line_title(Head(lines))
             an == slugify(ti)
         IN  toc_loop(Tail(lines),
                      replace(h, heading_tag(lv, ti), heading_tag_with_id(lv, an, ti)),
                      toc \o toc_entry(lv, an, ti))
    ELSE toc_loop(Tail(lines), h, toc)

\* lines 121-133: the html that goes into the page
body_html(doc, toc) ==
    IF toc
    THEN LET r == toc_loop(splitlines(doc), markdown(doc), toc_header)
         IN  (r.toc_html \o <<"</ul>">>) \o r.html
    ELSE markdown(doc)

\* lines 135-155 with the Default theme and no watermark
wrap_html(h) ==
    <<"<html><head>", "<style>", "</head><body>">> \o h \o <<"</body></html>">>

\* pdfkit.from_string(final_html, ...): the bytes the renderer writes
pdf_of(h) == <<"%PDF">> \o h

Message(k, text) == [kind |-> k, label |-> text, data |-> <<>>, file_name |-> <<>>]
Download(text, bytes, name) ==
    [kind |-> "download", label |-> text, data |-> bytes, file_name |-> name]

FileData(name) == (CHOOSE f \in disk : f.name = name).data
FileExists(name) == \E f \in disk : f.name = name
WriteFile(name, bytes) == {f \in disk : f.name # name} \cup {[name |-> name, data |-> bytes]}

\* lines 215-216: except Exception as e: st.error(f"Conversion failed: {e}")
Except(e) ==
    /\ raised' = Append(raised, e)
    /\ ui' = Append(ui, Message("error", <<"Conversion failed: ", e>>))
    /\ pc' = "cleanup"

tocLocals == <<toc_html, i, level, title, anchor>>
inputs == <<md_content, uploaded_filename, now, add_toc, show_preview, download_preview,
            save_html, compress_pdf>>

Init ==
    /\ pc = "click"
    /\ md_content \in HandlerDocs
    /\ uploaded_filename = None
    /\ now = ClickTime
    /\ add_toc \in BOOLEAN
    /\ show_preview \in BOOLEAN
    /\ download_preview \in BOOLEAN
    /\ save_html \in BOOLEAN
    /\ compress_pdf \in BOOLEAN
    /\ html = <<>> /\ toc_html = <<>> /\ i = 0 /\ level = 0
    /\ title = <<>> /\ anchor = <<>> /\ filename_base = <<>>
    /\ final_html = <<>> /\ temp_files = <<>> /\ temp_files_bound = FALSE
    /\ disk = {} /\ ui = <<>> /\ calls = <<>> /\ raised = <<>> /\ uncaught = FALSE

\* lines 121-182: Markdown conversion, TOC, style, filename, options, temp_files = []
Prepare ==
    /\ pc = "click"
    /\ calls' = Append(calls, "markdown.markdown")
    /\ \/ /\ html' = body_html(md_content, add_toc)
          /\ final_html' = wrap_html(html')
          /\ filename_base' = resolve_filename_base(md_content, uploaded_filename, now)
          /\ temp_files' = <<>>
          /\ temp_files_bound' = TRUE
          /\ pc' = "pdf_temp"
          /\ UNCHANGED <<ui, raised>>
       \/ /\ Except("markdown error")
          /\ UNCHANGED <<html, final_html, filename_base, temp_files, temp_files_bound>>
    /\ UNCHANGED <<inputs, tocLocals, disk, uncaught>>

\* line 185: tempfile.NamedTemporaryFile(delete=False, suffix=".pdf")
CreatePdfTemp ==
    /\ pc = "pdf_temp"
    /\ \/ /\ disk' = WriteFile(TmpPdfName, <<>>)
          /\ pc' = "render"
          /\ UNCHANGED <<ui, raised>>
       \/ /\ Except("cannot create temporary file")
          /\ UNCHANGED disk
    /\ UNCHANGED <<inputs, tocLocals, html, final_html, filename_base, temp_files,
                   temp_files_bound, calls, uncaught>>

\* lines 186-187: pdfkit.from_string(...), then temp_files.append(tmp_pdf.name)
Render ==
    /\ pc = "render"
    /\ calls' = Append(calls, "pdfkit.from_string")
    /\ \/ /\ disk' = WriteFile(TmpPdfName, pdf_of(final_html))
          /\ temp_files' = Append(temp_files, TmpPdfName)
          /\ pc' = "preview"
          /\ UNCHANGED <<ui, raised>>
       \/ /\ Except("wkhtmltopdf error")
          /\ UNCHANGED <<disk, temp_files>>
    /\ UNCHANGED <<inputs, tocLocals, html, final_html, filename_base, temp_files_bound,
                   uncaught>>

\* lines 190-191
Preview ==
    /\ pc = "preview"
    /\ ui' = IF show_preview
             THEN Append(ui, [kind |-> "iframe", label |-> <<"file://">> \o TmpPdfName,
                              data |-> <<>>, file_name |-> <<>>])
             ELSE ui
    /\ pc' = "download_preview"
    /\ UNCHANGED <<inputs, tocLocals, html, final_html, filename_base, temp_files,
                   temp_files_bound, disk, calls, raised, uncaught>>

\* lines 194-196
DownloadPreview ==
    /\ pc = "download_preview"
    /\ IF download_preview
       THEN \/ /\ ui' = Append(ui, Download(<<"Download Preview PDF">>, FileData(TmpPdfName),
                                            <<"preview_">> \o filename_base \o <<".pdf">>))
               /\ pc' = "download_pdf"
               /\ UNCHANGED raised
            \/ Except("cannot open file")
       ELSE pc' = "download_pdf" /\ UNCHANGED <<ui, raised>>
    /\ UNCHANGED <<inputs, tocLocals, html, final_html, filename_base, temp_files,
                   temp_files_bound, disk, calls, uncaught>>

\* lines 198-200
DownloadPdf ==
    /\ pc = "download_pdf"
    /\ LET shown == Append(ui, Message("success", <<"PDF generated!">>))
       IN  \/ /\ ui' = Append(shown, Download(<<"Download PDF">>, FileData(TmpPdfName),
                                              filename_base \o <<".pdf">>))
              /\ pc' = "html_temp"
              /\ UNCHANGED raised
           \/ /\ raised' = Append(raised, "cannot open file")
              /\ ui' = Append(shown, Message("error", <<"Conversion failed: ", "cannot open file">>))
              /\ pc' = "cleanup"
    /\ UNCHANGED <<inputs, tocLocals, html, final_html, filename_base, temp_files,
                   temp_files_bound, disk, calls, uncaught>>

\* lines 203-204: if save_html, tempfile.NamedTemporaryFile(delete=False, suffix=".html")
CreateHtmlTemp ==
    /\ pc = "html_temp"
    /\ IF save_html
       THEN \/ /\ disk' = WriteFile(TmpHtmlName, <<>>)
               /\ pc' = "html_write"
               /\ UNCHANGED <<ui, raised>>
            \/ /\ Except("cannot create temporary file")
               /\ UNCHANGED disk
       ELSE pc' = "compress" /\ UNCHANGED <<disk, ui, raised>>
    /\ UNCHANGED <<inputs, tocLocals, html, final_html, filename_base, temp_files,
                   temp_files_bound, calls, uncaught>>

\* lines 205-207: write, flush, then temp_files.append(tmp_html.name)
WriteHtml ==
    /\ pc = "html_write"
    /\ \/ /\ disk' = WriteFile(TmpHtmlName, final_html)
          /\ temp_files' = Append(temp_files, TmpHtmlName)
          /\ pc' = "html_offer"
          /\ UNCHANGED <<ui, raised>>
       \/ /\ Except("no space left on device")
          /\ UNCHANGED <<disk, temp_files>>
    /\ UNCHANGED <<inputs, tocLocals, html, final_html, filename_base, temp_files_bound,
                   calls, uncaught>>

\* lines 208-209
OfferHtml ==
    /\ pc = "html_offer"
    /\ \/ /\ ui' = Append(ui, Download(<<"Download HTML">>, FileData(TmpHtmlName),
                                       filename_base \o <<".html">>))
          /\ pc' = "compress"
          /\ UNCHANGED raised
       \/ Except("cannot open file")
    /\ UNCHANGED <<inputs, tocLocals, html, final_html, filename_base, temp_files,
                   temp_files_bound, disk, calls, uncaught>>

\* lines 212-213: if compress_pdf: st.success("PDF compressed!")
Compress ==
    /\ pc = "compress"
    /\ ui' = IF compress_pdf THEN Append(ui, Message("success", <<"PDF compressed!">>)) ELSE ui
    /\ pc' = "cleanup"
    /\ UNCHANGED <<inputs, tocLocals, html, final_html, filename_base, temp_files,
                   temp_files_bound, disk, calls, raised, uncaught>>

\* line 218 when the try block failed before line 182: temp_files is not defined
CleanupUnbound ==
    /\ pc = "cleanup"
    /\ ~temp_files_bound
    /\ raised' = Append(raised, "name 'temp_files' is not defined")
    /\ uncaught' = TRUE
    /\ pc' = "crashed"
    /\ UNCHANGED <<inputs, tocLocals, html, final_html, filename_base, temp_files,
                   temp_files_bound, disk, ui, calls>>

\* lines 218-219: os.unlink(f) for the next f of temp_files
Unlink ==
    /\ pc = "cleanup"
    /\ temp_files_bound
    /\ temp_files # <<>>
    /\ \/ /\ disk' = {f \in disk : f.name # Head(temp_files)}
          /\ temp_files' = Tail(temp_files)
          /\ UNCHANGED <<pc, raised, uncaught>>
       \/ /\ raised' = Append(raised, "cannot unlink file")
          /\ uncaught' = TRUE
          /\ pc' = "crashed"
          /\ UNCHANGED <<disk, temp_files>>
    /\ UNCHANGED <<inputs, tocLocals, html, final_html, filename_base, temp_files_bound,
                   ui, calls>>

\* the loop of line 218 is over
CleanupDone ==
    /\ pc = "cleanup"
    /\ temp_files_bound
    /\ temp_files = <<>>
    /\ pc' = "done"
    /\ UNCHANGED <<inputs, tocLocals, html, final_html, filename_base, temp_files,
                   temp_files_bound, disk, ui, calls, raised, uncaught>>

Next ==
    \/ Prepare \/ CreatePdfTemp \/ Render \/ Preview \/ DownloadPreview \/ DownloadPdf
    \/ CreateHtmlTemp \/ WriteHtml \/ OfferHtml \/ Compress
    \/ CleanupUnbound \/ Unlink \/ CleanupDone

Spec == Init /\ [][Next]_vars

AttemptOver == pc \in {"done", "crashed"}

Shown(k) == {n \in 1..Len(ui) : ui[n].kind = k}

(***************************************************************************)
(* C1: after any conversion attempt, successful or failed at any step,     *)
(* every temporary file created during the attempt has been deleted.       *)
(***************************************************************************)
C1_NoTempFileLeft == AttemptOver => disk = {}

(***************************************************************************)
(* C2: no partial artifacts on failure: an attempt that ends with the      *)
(* "Conversion failed" message has offered no artifact (PDF, preview PDF   *)
(* or HTML download) and shown no success message.                         *)
(***************************************************************************)
C2_NoPartialArtifacts ==
    (AttemptOver /\ Shown("error") # {}) => (Shown("download") = {} /\ Shown("success") = {})

(***************************************************************************)
(* C3: every error raised during a conversion attempt, at whichever step,  *)
(* is caught and reported as exactly one "Conversion failed: <error text>" *)
(* message; no error leaves the handler uncaught.                          *)
(***************************************************************************)
C3_EveryErrorCaught ==
    /\ ~uncaught
    /\ AttemptOver =>
          /\ Cardinality(Shown("error")) = Len(raised)
          /\ Len(raised) <= 1
          /\ \A n \in Shown("error") : ui[n].label = <<"Conversion failed: ", raised[1]>>

(***************************************************************************)
(* C4: with compression enabled, the PDF bytes offered for download are    *)
(* the renderer's bytes re-encoded by the compression pass, and "PDF       *)
(* compressed" is shown only when that pass has been applied; with         *)
(* compression disabled the renderer's bytes are delivered unchanged.      *)
(***************************************************************************)
CompressionApplied == \E n \in 1..Len(calls) : calls[n] = "compress"

C4_CompressedWhenEnabled ==
    /\ \A n \in Shown("download") :
          ui[n].label = <<"Download PDF">> =>
              IF compress_pdf
              THEN CompressionApplied /\ ui[n].data # pdf_of(final_html)
              ELSE ui[n].data = pdf_of(final_html)
    /\ (\E n \in Shown("success") : ui[n].label = <<"PDF compressed!">>) => CompressionApplied

====
